---- MODULE Spec2Model ----
(***************************************************************************)
(* The read-only JSON API of twobuntu/api/v1_2/views.py: seven endpoints,  *)
(* each built as endpoint(paginate(minmax(resource))), over a database of  *)
(* articles, profiles and categories.  One request is handled per action;  *)
(* the decorators are operators that take the wrapped function.            *)
(***************************************************************************)
EXTENDS Integers, Sequences, FiniteSets, TLC

VARIABLES db, pc, request, outcome

vars == <<db, pc, request, outcome>>

\* ------------------------------------------------------------ bounds
\* Article tables hold 0..MaxSmall rows, or MaxSize+2 .. MaxSize+1+Extra
\* rows (with one draft, more published articles than a page holds).
MaxSmall == 3
Extra == 1
\* The ways the rows' status, date, author and category are laid out.
NumPatterns == 2
\* The ids a by-id endpoint is asked for: 1..MaxId.
MaxId == 2
\* The host's offset from UTC, in seconds (datetime.fromtimestamp is local).
TzOffset == 1

\* Rows of the profile and category tables, and the dates 0..NumDates-1
\* (seconds on the host's clock) an article may carry.
NumProfiles == 2
NumCategories == 2
NumDates == 4

\* ------------------------------------------------- program constants
\* min(max(int(size), 0), 20), and the default size.
MaxSize == 20

\* ------------------------------------------------------------- text
Digits == <<"0", "1", "2", "3", "4", "5", "6", "7", "8", "9">>

IsDigit(c) == \E i \in 1..10 : Digits[i] = c

DigitVal(c) == (CHOOSE i \in 1..10 : Digits[i] = c) - 1

IsSpace(c) == c \in {" ", "\t", "\n"}

\* str.strip(): the characters left after leading and trailing whitespace.
RECURSIVE LStrip(_)
LStrip(cs) ==
    IF cs # <<>> /\ IsSpace(Head(cs)) THEN LStrip(Tail(cs)) ELSE cs

RECURSIVE RStrip(_)
RStrip(cs) ==
    IF cs # <<>> /\ IsSpace(cs[Len(cs)])
    THEN RStrip(SubSeq(cs, 1, Len(cs) - 1))
    ELSE cs

RECURSIVE DigitsValue(_, _)
DigitsValue(cs, acc) ==
    IF cs = <<>> THEN acc
    ELSE DigitsValue(Tail(cs), acc * 10 + DigitVal(Head(cs)))

Signed(s) == s # <<>> /\ Head(s) \in {"+", "-"}

Unsigned(s) == IF Signed(s) THEN Tail(s) ELSE s

AllDigits(body) == body # <<>> /\ \A i \in 1..Len(body) : IsDigit(body[i])

Negated(s, n) == IF Signed(s) /\ Head(s) = "-" THEN 0 - n ELSE n

IntOf(s) ==
    IF ~AllDigits(Unsigned(s)) THEN [exc |-> "ValueError", v |-> 0]
    ELSE [exc |-> "none", v |-> Negated(s, DigitsValue(Unsigned(s), 0))]

\* Python's int(s) on a string: surrounding whitespace is dropped, one sign
\* is allowed, and what is left must be one or more decimal digits;
\* anything else raises ValueError.
int(cs) == IntOf(RStrip(LStrip(cs)))

\* The characters of a parameter value, as the string they spell.
RECURSIVE Str(_)
Str(cs) == IF cs = <<>> THEN "" ELSE Head(cs) \o Str(Tail(cs))

\* str(n) of an integer.
RECURSIVE NatStr(_)
NatStr(n) ==
    IF n < 10 THEN Digits[n + 1]
    ELSE NatStr(n \div 10) \o Digits[(n % 10) + 1]

IntStr(n) == IF n < 0 THEN "-" \o NatStr(0 - n) ELSE NatStr(n)

Max(a, b) == IF a >= b THEN a ELSE b

Min(a, b) == IF a <= b THEN a ELSE b

\* ----------------------------------------------------- the database
PUBLISHED == "published"

DRAFT == "draft"

\* The row at position i of an article table laid out by pattern k: the
\* pattern places the table's one draft and spreads dates, authors and
\* categories.  Rows are held in the table's default order.
ArticleRow(i, k) ==
    [type |-> "Article",
     id |-> i,
     title |-> IF i % 2 = 0 THEN "Even" ELSE "Odd",
     author |-> 1 + ((i + k) % NumProfiles),
     category |-> 1 + (((i \div 2) + k) % NumCategories),
     body |-> "text",
     cc_license |-> (i % 2 = 1),
     date |-> (i * (k + 1) + k) % NumDates,
     status |-> IF i = 3 - k THEN DRAFT ELSE PUBLISHED]

ProfileRow(i) ==
    [type |-> "Profile",
     id |-> i,
     name |-> IF i = 1 THEN "ann" ELSE "bob",
     email |-> IF i = 1 THEN "ann@example.org" ELSE "bob@example.org",
     last_login |-> i]

CategoryRow(i) ==
    [type |-> "Category",
     id |-> i,
     name |-> IF i = 1 THEN "news" ELSE "howto"]

TableSizes == (0..MaxSmall) \cup ((MaxSize + 2)..(MaxSize + 1 + Extra))

Databases ==
    {[articles |-> [i \in 1..n |-> ArticleRow(i, k)],
      profiles |-> [i \in 1..NumProfiles |-> ProfileRow(i)],
      categories |-> [i \in 1..NumCategories |-> CategoryRow(i)]] :
        n \in TableSizes, k \in 0..(NumPatterns - 1)}

\* ------------------------------------------------------- query sets
\* A QuerySet: the model it ranges over and its rows, in order.
QuerySet(model, rows) == [model |-> model, rows |-> rows]

NoValue == QuerySet("None", <<>>)

\* What a callable hands back: a value, or the exception it raised.
\* called counts the invocations of the resource function.
Return(value, called) ==
    [exc |-> "none", msg |-> "", value |-> value, called |-> called]

Raise(exc, msg, called) ==
    [exc |-> exc, msg |-> msg, value |-> NoValue, called |-> called]

\* Whether a model has a `date` field to filter on.
HasDateField(model) == model = "Article"

\* datetime.fromtimestamp(t): the host's local wall-clock reading of t.
fromtimestamp(t) == t + TzOffset

\* QuerySet.filter(**filters) with date__gte / date__lte lookups: no
\* lookups leave the set as it is; a lookup on a field the model lacks
\* raises FieldError.
\* A lower bound that leaves out the item dated exactly min.
GteStrict(row, filters) ==
    "date__gte" \in DOMAIN filters => row.date > filters["date__gte"]

GteKeeps(row, filters) ==
    "date__gte" \in DOMAIN filters => row.date >= filters["date__gte"]

LteKeeps(row, filters) ==
    "date__lte" \in DOMAIN filters => row.date <= filters["date__lte"]

Keeps(row, filters) == GteKeeps(row, filters) /\ LteKeeps(row, filters)

filter(qs, filters) ==
    IF DOMAIN filters = {} THEN [exc |-> "none", qs |-> qs]
    ELSE IF ~HasDateField(qs.model) THEN [exc |-> "FieldError", qs |-> qs]
    ELSE [exc |-> "none",
          qs |-> QuerySet(qs.model,
                   SelectSeq(qs.rows, LAMBDA row : Keeps(row, filters)))]

\* qs[start:stop] with 0 <= start <= stop.
Slice(qs, start, stop) ==
    QuerySet(qs.model,
             SubSeq(qs.rows, start + 1, Min(stop, Len(qs.rows))))

\* --------------------------------------------------- pipeline stages
\* A decorator's wrapped function `fn` is given as `inner`, the outcome of
\* calling it: a wrapper that raises before its call never reads it, so
\* the resource function then counts as not called.

APIException == "APIException"

\* max(int(...), 1) and min(max(int(...), 0), 20) of a parsed value.
FlooredPage(r) == [exc |-> r.exc, v |-> Max(r.v, 1)]

ClampedSize(r) == [exc |-> r.exc, v |-> Min(Max(r.v, 0), MaxSize)]

\* paginate, line 98.
PageOf(GET) ==
    IF "page" \in DOMAIN GET THEN FlooredPage(int(GET["page"]))
    ELSE [exc |-> "none", v |-> 1]

\* A size that is floored at 0 and never capped.
FlooredSize(r) == [exc |-> r.exc, v |-> Max(r.v, 0)]

SizeUncapped(GET) ==
    IF "size" \in DOMAIN GET THEN FlooredSize(int(GET["size"]))
    ELSE [exc |-> "none", v |-> MaxSize]

\* paginate, line 99.
SizeOf(GET) ==
    IF "size" \in DOMAIN GET THEN ClampedSize(int(GET["size"]))
    ELSE [exc |-> "none", v |-> MaxSize]

\* paginate, line 102: the slice taken of what fn returned.
Window(qs, page, size) == Slice(qs, (page - 1) * size, page * size)

\* paginate, lines 97-102, with page and size as parsed.
Paginated(page, size, inner) ==
    IF page.exc = "ValueError" \/ size.exc = "ValueError"
    THEN Raise(APIException,
               "Invalid page and/or size parameter specified.", 0)
    ELSE IF inner.exc # "none" THEN inner
    ELSE Return(Window(inner.value, page.v, size.v), inner.called)

paginate(inner, req) == Paginated(PageOf(req.GET), SizeOf(req.GET), inner)

\* minmax, lines 110-111: one lookup, when its parameter is present.
Bound(r) == [exc |-> r.exc, present |-> TRUE, v |-> fromtimestamp(r.v)]

Lookup(GET, param) ==
    IF param \in DOMAIN GET THEN Bound(int(GET[param]))
    ELSE [exc |-> "none", present |-> FALSE, v |-> 0]

FilterKeys(lo, hi) ==
    (IF lo.present THEN {"date__gte"} ELSE {})
    \cup (IF hi.present THEN {"date__lte"} ELSE {})

FiltersOf(lo, hi) ==
    IF lo.exc = "ValueError" \/ hi.exc = "ValueError"
    THEN [exc |-> "ValueError", f |-> [k \in {} |-> 0]]
    ELSE [exc |-> "none",
          f |-> [k \in FilterKeys(lo, hi) |->
                    IF k = "date__gte" THEN lo.v ELSE hi.v]]

\* minmax, lines 108-111: the filters dict.
Filters(GET) == FiltersOf(Lookup(GET, "min"), Lookup(GET, "max"))

\* minmax, line 114: what .filter(**filters) gave.
Refined(r, inner) ==
    IF r.exc # "none" THEN Raise(r.exc, "", inner.called)
    ELSE Return(r.qs, inner.called)

\* minmax, lines 108-114, with the filters as parsed.
Filtered(filters, inner) ==
    IF filters.exc = "ValueError"
    THEN Raise(APIException,
               "Invalid min and/or max parameter specified.", 0)
    ELSE IF inner.exc # "none" THEN inner
    ELSE Refined(filter(inner.value, filters.f), inner)

minmax(inner, req) == Filtered(Filters(req.GET), inner)

\* ------------------------------------------------ resource functions
\* A listing that forgets the status filter.
AnyStatus(rows) == rows

\* filter(status=Article.PUBLISHED), lines 122, 129, 150 and 164.
Published(rows) == SelectSeq(rows, LAMBDA a : a.status = PUBLISHED)

articles_fn(d) ==
    Return(QuerySet("Article", Published(d.articles)), 1)

article_by_id_fn(d, id) ==
    Return(QuerySet("Article",
             SelectSeq(Published(d.articles), LAMBDA a : a.id = id)), 1)

authors_fn(d) ==
    Return(QuerySet("Profile", d.profiles), 1)

author_by_id_fn(d, id) ==
    Return(QuerySet("Profile",
             SelectSeq(d.profiles, LAMBDA p : p.id = id)), 1)

articles_by_author_fn(d, id) ==
    Return(QuerySet("Article",
             SelectSeq(Published(d.articles), LAMBDA a : a.author = id)), 1)

\* Count('article'): the articles that reference the category.
CountArticles(d, c) ==
    Cardinality({i \in 1..Len(d.articles) : d.articles[i].category = c.id})

categories_fn(d) ==
    Return(QuerySet("Category",
             [i \in 1..Len(d.categories) |->
                 d.categories[i]
                 @@ [num_articles |-> CountArticles(d, d.categories[i])]]),
           1)

articles_by_category_fn(d, id) ==
    Return(QuerySet("Article",
             SelectSeq(Published(d.articles), LAMBDA a : a.category = id)), 1)

\* ---------------------------------------------------------- encoder
\* hashlib.md5(s).hexdigest(): a digest that names the text it was
\* computed from.
md5(s) == "md5:" \o s

\* timegm(d.utctimetuple()) of a stored datetime: its reading as seconds.
timegm(d) == d

ProfileOf(d, id) == d.profiles[id]

CategoryOf(d, id) == d.categories[id]

\* What an encoder method hands back: the dict, or the exception raised.
Encoded(value) == [exc |-> "none", value |-> value]

EncodeFails(exc) == [exc |-> exc, value |-> <<>>]

_encode_article(d, article) ==
    Encoded([id |-> article.id,
             title |-> article.title,
             author |-> [id |-> ProfileOf(d, article.author).id,
                         name |-> ProfileOf(d, article.author).name,
                         email_hash |->
                             md5(ProfileOf(d, article.author).email)],
             category |-> [id |-> CategoryOf(d, article.category).id,
                           name |-> CategoryOf(d, article.category).name],
             body |-> "<p>" \o article.body \o "</p>",
             cc_license |-> article.cc_license,
             date |-> timegm(article.date)])

_encode_category(d, category) ==
    Encoded([id |-> category.id,
             name |-> category.name,
             articles |-> category.num_articles])

\* Line 61 reads the name `article`, which is bound neither in the method
\* nor in the module: evaluating the dict raises NameError.
_encode_profile(d, profile) == EncodeFails("NameError")

\* ObjectEncoder.default on one row; JSONEncoder.default raises TypeError.
default(d, o) ==
    CASE o.type = "Article" -> _encode_article(d, o)
      [] o.type = "Category" -> _encode_category(d, o)
      [] o.type = "Profile" -> _encode_profile(d, o)
      [] OTHER -> EncodeFails("TypeError")

FirstOf(bad) == CHOOSE i \in bad : \A j \in bad : i <= j

Gathered(each, bad) ==
    IF bad # {} THEN EncodeFails(each[FirstOf(bad)].exc)
    ELSE Encoded([i \in DOMAIN each |-> each[i].value])

Failures(each) == {i \in DOMAIN each : each[i].exc # "none"}

EachEncoded(each) == Gathered(each, Failures(each))

\* The encoder on a QuerySet: list(o), then each row in turn; the first
\* row that fails ends the encoding.
EncodeAll(d, qs) ==
    EachEncoded([i \in 1..Len(qs.rows) |-> default(d, qs.rows[i])])

\* ------------------------------------------------------- JSON text
RECURSIVE Pad(_)
Pad(n) == IF n = 0 THEN "" ELSE " " \o Pad(n - 1)

\* The break json.dumps writes before an item at nesting `level`; indent 0
\* stands for indent=None.
Newline(indent, level) ==
    IF indent = 0 THEN "" ELSE "\n" \o Pad(indent * level)

RECURSIVE JoinItems(_, _)
JoinItems(items, sep) ==
    IF items = <<>> THEN ""
    ELSE IF Len(items) = 1 THEN items[1]
    ELSE items[1] \o sep \o JoinItems(Tail(items), sep)

\* A container's text: its items' texts between the brackets, separated by
\* ", " (and a line break when indenting).
Container(open, close, items, indent, level) ==
    IF items = <<>> THEN open \o close
    ELSE open \o Newline(indent, level + 1)
         \o JoinItems(items, ", " \o Newline(indent, level + 1))
         \o Newline(indent, level) \o close

Quoted(s) == "\"" \o s \o "\""

Pair(key, text) == Quoted(key) \o ": " \o text

BoolText(b) == IF b THEN "true" ELSE "false"

ArticleText(a, indent, level) ==
    Container("{", "}",
        <<Pair("id", IntStr(a.id)),
          Pair("title", Quoted(a.title)),
          Pair("author",
               Container("{", "}",
                   <<Pair("id", IntStr(a.author.id)),
                     Pair("name", Quoted(a.author.name)),
                     Pair("email_hash", Quoted(a.author.email_hash))>>,
                   indent, level + 1)),
          Pair("category",
               Container("{", "}",
                   <<Pair("id", IntStr(a.category.id)),
                     Pair("name", Quoted(a.category.name))>>,
                   indent, level + 1)),
          Pair("body", Quoted(a.body)),
          Pair("cc_license", BoolText(a.cc_license)),
          Pair("date", IntStr(a.date))>>,
        indent, level)

CategoryText(c, indent, level) ==
    Container("{", "}",
        <<Pair("id", IntStr(c.id)),
          Pair("name", Quoted(c.name)),
          Pair("articles", IntStr(c.articles))>>,
        indent, level)

ErrorText(e, indent, level) ==
    Container("{", "}", <<Pair("error", Quoted(e.error))>>, indent, level)

ItemText(x, indent, level) ==
    IF "title" \in DOMAIN x THEN ArticleText(x, indent, level)
    ELSE CategoryText(x, indent, level)

\* json.dumps of a payload: the error dict, or the list of encoded rows.
dumps(payload, indent) ==
    IF payload.kind = "dict" THEN ErrorText(payload, indent, 0)
    ELSE Container("[", "]",
             [i \in 1..Len(payload.items) |->
                 ItemText(payload.items[i], indent, 1)],
             indent, 0)

\* The value handed to json.dumps: the list of encoded rows, or the dict
\* {'error': message}.
ListPayload(items) == [kind |-> "list", error |-> "", items |-> items]

ErrorPayload(msg) == [kind |-> "dict", error |-> msg, items |-> <<>>]

NoPayload == [kind |-> "none", error |-> "", items |-> <<>>]

\* ------------------------------------------------------ endpoint stage
NoResponse == [template |-> "", content_type |-> "", content |-> ""]

\* A wrapper that looks for `callback` before `debug`.
RenderCallbackFirst(GET, json, payload) ==
    IF "callback" \in DOMAIN GET
    THEN [template |-> "",
          content_type |-> "application/javascript",
          content |-> Str(GET["callback"]) \o "(" \o json \o ")"]
    ELSE IF "debug" \in DOMAIN GET
    THEN [template |-> "api/debug.html",
          content_type |-> "text/html",
          content |-> dumps(payload, 4)]
    ELSE [template |-> "",
          content_type |-> "application/json",
          content |-> json]

\* endpoint.wrapper, lines 78-91: the representation of the JSON text.
\* json.loads of the text gives back the payload it was written from.
Render(GET, json, payload) ==
    IF "debug" \in DOMAIN GET
    THEN [template |-> "api/debug.html",
          content_type |-> "text/html",
          content |-> dumps(payload, 4)]
    ELSE IF "callback" \in DOMAIN GET
    THEN [template |-> "",
          content_type |-> "application/javascript",
          content |-> Str(GET["callback"]) \o "(" \o json \o ")"]
    ELSE [template |-> "",
          content_type |-> "application/json",
          content |-> json]

\* A try block that catches every exception.
CaughtAny(exc) == TRUE

\* A try block that catches the parse error instead of the API's own.
CaughtValueError(exc) == exc = "ValueError"

\* endpoint.wrapper, lines 72-77: which exceptions the try block catches.
Caught(exc) == exc = APIException

\* endpoint.wrapper, lines 78-91, for the payload written as `json`.
Responded(json, payload, req) ==
    [raised |-> "none", payload |-> payload, json |-> json,
     response |-> Render(req.GET, json, payload)]

\* endpoint.wrapper, lines 72-77: the outcome of the try block.
Tried(enc, inner, req) ==
    IF enc.exc = "none"
    THEN Responded(dumps(ListPayload(enc.value), 0),
                   ListPayload(enc.value), req)
    ELSE IF Caught(enc.exc)
    THEN Responded(dumps(ErrorPayload(inner.msg), 0),
                   ErrorPayload(inner.msg), req)
    ELSE [raised |-> enc.exc, payload |-> NoPayload, json |-> "",
          response |-> NoResponse]

\* dumps(fn(request, **kwargs), cls=ObjectEncoder): the encoder runs on
\* what the inner pipeline returned, if it returned.
Encoding(d, inner) ==
    IF inner.exc = "none" THEN EncodeAll(d, inner.value)
    ELSE EncodeFails(inner.exc)

\* endpoint.wrapper: encode what the inner pipeline returned, turn a
\* caught exception into the error payload, let any other through.
endpoint(d, inner, req) == Tried(Encoding(d, inner), inner, req)

\* ------------------------------------------------------------ requests
Absent == <<"absent">>

PageRaws == {<<"0">>, <<"-", "1">>, <<"2">>, <<"a", "b", "c">>}

SizeRaws == {<<"0">>, <<"2">>, <<"-", "5">>, <<"1", "0", "0", "0">>, <<"x">>}

MinRaws == {<<"0">>, <<"n", "o", "t", "a", "n", "u", "m", "b", "e", "r">>}

\* max=%201 reads as 1: int() drops the blank.
MaxRaws == {<<" ", "1">>, <<"1", ".", "5">>}

DebugRaws == {<<"1">>}

CallbackRaws == {<<"f", "o", "o">>}

\* A QueryDict: the parameters present, each with its raw text.
QueryDict(all) == [k \in {n \in DOMAIN all : all[n] # Absent} |-> all[k]]

GETs ==
    {QueryDict([page |-> p, size |-> s, min |-> lo, max |-> hi,
                debug |-> dbg, callback |-> cb]) :
        p \in PageRaws \cup {Absent}, s \in SizeRaws \cup {Absent},
        lo \in MinRaws \cup {Absent}, hi \in MaxRaws \cup {Absent},
        dbg \in DebugRaws \cup {Absent}, cb \in CallbackRaws \cup {Absent}}

Ids == 1..MaxId

NoRequest == [view |-> "", id |-> 0, GET |-> QueryDict([page |-> Absent])]

\* A stage that was never entered.
NotCalled == Raise("not called", "", 0)

NoOutcome ==
    [filtered |-> NotCalled, paged |-> NotCalled, raised |-> "none",
     payload |-> NoPayload, json |-> "", response |-> NoResponse]

Request(view, id, GET) == [view |-> view, id |-> id, GET |-> GET]

\* ------------------------------------------------------------- actions
Init ==
    /\ db \in Databases
    /\ pc = "idle"
    /\ request = NoRequest
    /\ outcome = NoOutcome

\* The stack the other way round: the page is cut first, then filtered.
PipelineSwapped(resource, req) == minmax(paginate(resource, req), req)

\* The decorator stack of every view, lines 117-119: @paginate over
\* @minmax over the resource function.
Pipeline(resource, req) == paginate(minmax(resource, req), req)

\* What the minmax wrapper handed back, when paginate got as far as
\* calling it.
FilterStage(resource, req) ==
    IF PageOf(req.GET).exc = "ValueError" \/ SizeOf(req.GET).exc = "ValueError"
    THEN NotCalled
    ELSE minmax(resource, req)

\* What each stage returned, beside what the view did.
Outcome(filtered, paged, done) ==
    [filtered |-> filtered,
     paged |-> paged,
     raised |-> done.raised,
     payload |-> done.payload,
     json |-> done.json,
     response |-> done.response]

View(filtered, paged, req) ==
    Outcome(filtered, paged, endpoint(db, paged, req))

\* One request served by a view: @endpoint over the stack.
Serve(req, resource) ==
    /\ pc' = "done"
    /\ request' = req
    /\ outcome' = View(FilterStage(resource, req),
                       Pipeline(resource, req), req)
    /\ UNCHANGED db

articles ==
    /\ pc = "idle"
    /\ \E GET \in GETs :
        Serve(Request("articles", 0, GET), articles_fn(db))

article_by_id ==
    /\ pc = "idle"
    /\ \E GET \in GETs, id \in Ids :
        Serve(Request("article_by_id", id, GET), article_by_id_fn(db, id))

authors ==
    /\ pc = "idle"
    /\ \E GET \in GETs :
        Serve(Request("authors", 0, GET), authors_fn(db))

author_by_id ==
    /\ pc = "idle"
    /\ \E GET \in GETs, id \in Ids :
        Serve(Request("author_by_id", id, GET), author_by_id_fn(db, id))

articles_by_author ==
    /\ pc = "idle"
    /\ \E GET \in GETs, id \in Ids :
        Serve(Request("articles_by_author", id, GET),
              articles_by_author_fn(db, id))

categories ==
    /\ pc = "idle"
    /\ \E GET \in GETs :
        Serve(Request("categories", 0, GET), categories_fn(db))

articles_by_category ==
    /\ pc = "idle"
    /\ \E GET \in GETs, id \in Ids :
        Serve(Request("articles_by_category", id, GET),
              articles_by_category_fn(db, id))

\* The response has been sent; nothing of the request is kept.
Finish ==
    /\ pc = "done"
    /\ pc' = "idle"
    /\ request' = NoRequest
    /\ outcome' = NoOutcome
    /\ UNCHANGED db

Next ==
    \/ articles
    \/ article_by_id
    \/ authors
    \/ author_by_id
    \/ articles_by_author
    \/ categories
    \/ articles_by_category
    \/ Finish

Spec == Init /\ [][Next]_vars

\* ------------------------------------------------- reading a request
Done == pc = "done"

Has(param) == param \in DOMAIN request.GET

\* The parameter values that spell an integer, with the integer spelled.
IntegerRaws ==
    {<<"0">>, <<" ", "1">>, <<"-", "1">>, <<"2">>, <<"-", "5">>,
     <<"1", "0", "0", "0">>}

IntValue(raw) ==
    CASE raw = <<"0">> -> 0
      [] raw = <<" ", "1">> -> 1
      [] raw = <<"-", "1">> -> 0 - 1
      [] raw = <<"2">> -> 2
      [] raw = <<"-", "5">> -> 0 - 5
      [] raw = <<"1", "0", "0", "0">> -> 1000

IsInteger(param) == Has(param) => request.GET[param] \in IntegerRaws

\* The resource function of the view that served the request.
ResourceOf(req) ==
    CASE req.view = "articles" -> articles_fn(db)
      [] req.view = "article_by_id" -> article_by_id_fn(db, req.id)
      [] req.view = "authors" -> authors_fn(db)
      [] req.view = "author_by_id" -> author_by_id_fn(db, req.id)
      [] req.view = "articles_by_author" -> articles_by_author_fn(db, req.id)
      [] req.view = "categories" -> categories_fn(db)
      [] req.view = "articles_by_category" ->
             articles_by_category_fn(db, req.id)

ArticleViews ==
    {"articles", "article_by_id", "articles_by_author", "articles_by_category"}

AuthorViews == {"authors", "author_by_id"}

PageError == "Invalid page and/or size parameter specified."

MinMaxError == "Invalid min and/or max parameter specified."

\* The requested page and size, defaulted and clamped as documented.
WantedPage == IF Has("page") THEN Max(IntValue(request.GET["page"]), 1) ELSE 1

WantedSize ==
    IF Has("size")
    THEN Min(Max(IntValue(request.GET["size"]), 0), 20)
    ELSE 20

\* rows[lo : hi] of a sequence, counted from 0 as a slice is.
SliceOf(rows, lo, hi) ==
    [i \in 1..Max(0, Min(hi, Len(rows)) - lo) |-> rows[lo + i]]

\* ------------------------------------------------------------------ C1
\* C1: a page or size that is no integer yields exactly the payload
\* {"error": "Invalid page and/or size parameter specified."}; with page
\* and size valid, a min or max that is no integer yields exactly
\* {"error": "Invalid min and/or max parameter specified."}; no exception
\* leaves the endpoint and the resource function is not called.
ErrorOutcome(msg) ==
    /\ outcome.raised = "none"
    /\ outcome.payload = ErrorPayload(msg)
    /\ outcome.json = "{\"error\": \"" \o msg \o "\"}"
    /\ outcome.paged.exc = APIException
    /\ outcome.paged.called = 0

C1_InvalidParams ==
    Done =>
        /\ (~IsInteger("page") \/ ~IsInteger("size")) => ErrorOutcome(PageError)
        /\ (IsInteger("page") /\ IsInteger("size")
            /\ (~IsInteger("min") \/ ~IsInteger("max")))
               => ErrorOutcome(MinMaxError)

C1_Witness ==
    /\ Done
    /\ Has("page") /\ IsInteger("page") /\ IsInteger("size")
    /\ Has("min") /\ ~IsInteger("min")
    /\ ~Has("debug") /\ ~Has("callback")
    /\ outcome.response.content
         = "{\"error\": \"Invalid min and/or max parameter specified.\"}"
    /\ outcome.paged.called = 0

\* ------------------------------------------------------------------ C2
\* C2: for integer page p and size s (absent: 1 and 20) the pagination
\* stage returns collection[(p'-1)*s' : p'*s'] in the collection's order,
\* p' = max(p, 1), s' = min(max(s, 0), 20); the result is empty, and no
\* error, when (p'-1)*s' >= N.
C2_PageSlice ==
    (Done /\ outcome.filtered.exc = "none") =>
        LET coll == outcome.filtered.value.rows
        IN  /\ outcome.paged.exc = "none"
            /\ outcome.paged.value.rows
                 = SliceOf(coll, (WantedPage - 1) * WantedSize,
                           WantedPage * WantedSize)
            /\ ((WantedPage - 1) * WantedSize >= Len(coll)
                  => outcome.paged.value.rows = <<>>)

\* size=1000 over more than 20 rows returns the first 20.
C2_Witness ==
    /\ Done
    /\ Has("size") /\ request.GET["size"] = <<"1", "0", "0", "0">>
    /\ ~Has("page")
    /\ outcome.filtered.exc = "none"
    /\ Len(outcome.filtered.value.rows) > 20
    /\ Len(outcome.paged.value.rows) = 20

\* ------------------------------------------------------------------ C3
\* The rows of a collection whose date lies within the request's min and
\* max, each bound read as the host's clock reads that timestamp.
InRange(row) ==
    /\ Has("min") => row.date >= fromtimestamp(IntValue(request.GET["min"]))
    /\ Has("max") => row.date <= fromtimestamp(IntValue(request.GET["max"]))

Restricted(rows) == SelectSeq(rows, InRange)

PageWindow(rows) ==
    SliceOf(rows, (WantedPage - 1) * WantedSize, WantedPage * WantedSize)

\* C3: the date-range restriction is applied before pagination: the page
\* returned is the slice [(p-1)*s : p*s] of the resource's collection
\* already restricted by min and max.
C3_FilterThenPage ==
    (Done /\ outcome.paged.exc = "none") =>
        outcome.paged.value.rows
          = PageWindow(Restricted(ResourceOf(request).value.rows))

\* A request where restricting the slice of the whole collection would
\* have given another page.
C3_Witness ==
    /\ Done
    /\ outcome.paged.exc = "none"
    /\ Has("min")
    /\ outcome.paged.value.rows # <<>>
    /\ outcome.paged.value.rows
         # Restricted(PageWindow(ResourceOf(request).value.rows))

\* ------------------------------------------------------------------ C9
\* C9: the date-range filter keeps an item iff its date >= min (when min
\* is present) and its date <= max (when max is present), both bounds
\* inclusive, in the collection's order; an absent bound constrains nothing.
C9_InclusiveRange ==
    (Done /\ outcome.filtered.exc = "none") =>
        LET rows == ResourceOf(request).value.rows
            kept == outcome.filtered.value.rows
        IN  /\ \A i \in 1..Len(rows) :
                   (\E j \in 1..Len(kept) : kept[j] = rows[i])
                     <=> InRange(rows[i])
            /\ kept = Restricted(rows)

\* Both bounds present: an item dated exactly min and one dated exactly max
\* are kept, an item one second below min and one one second above max are
\* dropped.
C9_Witness ==
    /\ Done
    /\ outcome.filtered.exc = "none"
    /\ Has("min") /\ Has("max")
    /\ LET rows == ResourceOf(request).value.rows
           kept == outcome.filtered.value.rows
           lo == fromtimestamp(IntValue(request.GET["min"]))
           hi == fromtimestamp(IntValue(request.GET["max"]))
       IN  /\ \E j \in 1..Len(kept) : kept[j].date = lo
           /\ \E j \in 1..Len(kept) : kept[j].date = hi
           /\ \E i \in 1..Len(rows) :
                  /\ rows[i].date = lo - 1
                  /\ \A j \in 1..Len(kept) : kept[j] # rows[i]
           /\ \E i \in 1..Len(rows) :
                  /\ rows[i].date = hi + 1
                  /\ \A j \in 1..Len(kept) : kept[j] # rows[i]

\* ------------------------------------------------------------------ C6
\* The stored article with a given id.
StoredArticle(id) ==
    db.articles[CHOOSE i \in 1..Len(db.articles) : db.articles[i].id = id]

\* C6: whatever page, size, min and max are, no article that is not
\* published appears in the output of an articles-listing endpoint.
C6_OnlyPublished ==
    (Done /\ request.view \in ArticleViews /\ outcome.payload.kind = "list") =>
        \A i \in 1..Len(outcome.payload.items) :
            StoredArticle(outcome.payload.items[i].id).status = PUBLISHED

\* A draft that matches the request's id is left out while published
\* articles are listed.
C6_Witness ==
    /\ Done
    /\ request.view = "articles_by_author"
    /\ ~Has("min") /\ ~Has("max") /\ ~Has("page") /\ ~Has("size")
    /\ \E i \in 1..Len(db.articles) :
           /\ db.articles[i].status = DRAFT
           /\ db.articles[i].author = request.id
    /\ outcome.payload.kind = "list"
    /\ outcome.payload.items # <<>>

\* ------------------------------------------------------------------ C7
\* C7: the endpoint returns one representation, by priority: the debug view
\* when `debug` is present (also beside `callback`); else, when `callback`
\* is present, exactly <callback>(<json>) as application/javascript; else
\* the JSON text as application/json.
C7_Representation ==
    (Done /\ outcome.raised = "none") =>
        IF Has("debug")
        THEN outcome.response.template = "api/debug.html"
        ELSE IF Has("callback")
        THEN /\ outcome.response.template = ""
             /\ outcome.response.content_type = "application/javascript"
             /\ outcome.response.content = "foo(" \o outcome.json \o ")"
        ELSE /\ outcome.response.template = ""
             /\ outcome.response.content_type = "application/json"
             /\ outcome.response.content = outcome.json

C7_Witness ==
    /\ Done
    /\ Has("debug") /\ Has("callback")
    /\ outcome.raised = "none"
    /\ outcome.payload.kind = "list"
    /\ outcome.payload.items # <<>>
    /\ outcome.response.template = "api/debug.html"

\* ------------------------------------------------------------------ C8
\* The exception the wrapped pipeline or the encoder raises, if any.
RaisedInside ==
    IF outcome.paged.exc # "none" THEN outcome.paged.exc
    ELSE EncodeAll(db, outcome.paged.value).exc

\* A row of a kind the encoder does not know.
Unrecognized == [type |-> "Other", id |-> 1]

\* C8: an APIException raised in the inner pipeline is caught by the
\* endpoint and replaced by the payload {"error": <message>}; any other
\* exception, the encoder's on an unrecognized object included, is not
\* caught: it leaves the endpoint and no response is produced.
C8_SoleRecovery ==
    /\ Done =>
        /\ RaisedInside = APIException =>
              /\ outcome.raised = "none"
              /\ outcome.payload = ErrorPayload(outcome.paged.msg)
              /\ outcome.response # NoResponse
        /\ RaisedInside \notin {"none", APIException} =>
              /\ outcome.raised = RaisedInside
              /\ outcome.response = NoResponse
        /\ RaisedInside = "none" => outcome.raised = "none"
    /\ LET one == endpoint(db, Return(QuerySet("Other", <<Unrecognized>>), 1),
                           request)
       IN  /\ default(db, Unrecognized).exc = "TypeError"
           /\ one.raised = "TypeError"
           /\ one.response = NoResponse

C8_Witness ==
    /\ Done
    /\ outcome.paged.exc = "none"
    /\ outcome.raised = "NameError"
    /\ outcome.response = NoResponse

\* ------------------------------------------------------------------ C4
\* C4: encoding an Author succeeds, and the email_hash it produces is
\* computed from that same Author's email.
C4_AuthorEncoding ==
    (Done /\ request.view \in AuthorViews /\ outcome.paged.exc = "none") =>
        /\ outcome.raised = "none"
        /\ outcome.payload.kind = "list"
        /\ Len(outcome.payload.items) = Len(outcome.paged.value.rows)
        /\ \A i \in 1..Len(outcome.payload.items) :
               outcome.payload.items[i].email_hash
                 = md5(outcome.paged.value.rows[i].email)

\* ------------------------------------------------------------------ C5
PublishedIn(categoryId) ==
    Cardinality({j \in 1..Len(db.articles) :
                    /\ db.articles[j].category = categoryId
                    /\ db.articles[j].status = PUBLISHED})

\* C5: the article count the categories endpoint emits for a category is
\* the number of that category's published articles; drafts are not
\* counted.
C5_PublishedCount ==
    (Done /\ request.view = "categories" /\ outcome.payload.kind = "list") =>
        \A i \in 1..Len(outcome.payload.items) :
            outcome.payload.items[i].articles
              = PublishedIn(outcome.payload.items[i].id)

\* ----------------------------------------------------------------- C10
\* C10: on each of the seven endpoints a request whose page, size, min and
\* max are each absent or an integer completes with a JSON array of
\* encoded items; an integer min or max never makes it fail unhandled.
C10_AlwaysCompletes ==
    (Done /\ IsInteger("page") /\ IsInteger("size")
          /\ IsInteger("min") /\ IsInteger("max")) =>
        /\ outcome.raised = "none"
        /\ outcome.payload.kind = "list"

====
